---- MODULE Spec2Model ----
(***************************************************************************)
(* pyright-action, src/helpers.ts: getArgs (version resolution, artifact   *)
(* lookup, argument vector, annotate set) and diagnosticToString.          *)
(*                                                                         *)
(* A string is a sequence of one-character strings, so that trimming,      *)
(* upper-casing, splitting, version parsing and concatenation are computed *)
(* character by character as the code computes them.                       *)
(***************************************************************************)
EXTENDS Integers, Sequences, FiniteSets, TLC

(* ------------------------------ bounds -------------------------------- *)

\* pyright patch numbers run over PatchPivot-MaxPatchDelta .. PatchPivot+MaxPatchDelta
MaxPatchDelta == 1
\* extra-args holds at most MaxExtraArgs words
MaxExtraArgs == 2
\* a comma-separated annotate directive holds at most MaxAnnotateTokens tokens
MaxAnnotateTokens == 2
\* 0-based line and character numbers of a diagnostic run over 0..MaxPosition
MaxPosition == 1

(* ------------------------- JavaScript strings ------------------------- *)

Lower == <<"a","b","c","d","e","f","g","h","i","j","k","l","m","n","o","p","q","r","s","t","u","v","w","x","y","z">>
Upper == <<"A","B","C","D","E","F","G","H","I","J","K","L","M","N","O","P","Q","R","S","T","U","V","W","X","Y","Z">>
DigitChars == <<"0","1","2","3","4","5","6","7","8","9">>
\* the characters of identifiers in code-unit order ("-" < digits < upper < lower)
CodeUnits == <<"-","0","1","2","3","4","5","6","7","8","9","A","B","C","D","E","F","G","H","I","J","K","L","M","N","O","P","Q","R","S","T","U","V","W","X","Y","Z","a","b","c","d","e","f","g","h","i","j","k","l","m","n","o","p","q","r","s","t","u","v","w","x","y","z">>
Whitespace == {" ", "\t"}

Chars(s) == {s[i] : i \in 1..Len(s)}

\* String.prototype.indexOf for one character, 1-based; 0 when absent
IndexOf(c, s) ==
    IF \E i \in 1..Len(s) : s[i] = c
    THEN CHOOSE i \in 1..Len(s) : s[i] = c /\ \A j \in 1..(i - 1) : s[j] # c
    ELSE 0

toUpperCaseChar(c) ==
    LET i == IndexOf(c, Lower) IN IF i > 0 THEN Upper[i] ELSE c

toUpperCase(s) == [i \in 1..Len(s) |-> toUpperCaseChar(s[i])]

RECURSIVE trimStart(_)
trimStart(s) ==
    IF s # <<>> /\ Head(s) \in Whitespace THEN trimStart(Tail(s)) ELSE s

RECURSIVE trimEnd(_)
trimEnd(s) ==
    IF s # <<>> /\ s[Len(s)] \in Whitespace
    THEN trimEnd(SubSeq(s, 1, Len(s) - 1))
    ELSE s

trim(s) == trimEnd(trimStart(s))

\* String.prototype.split on a one-character separator
RECURSIVE split(_, _)
split(s, sep) ==
    LET i == IndexOf(sep, s) IN
    IF i = 0
    THEN <<s>>
    ELSE <<SubSeq(s, 1, i - 1)>> \o split(SubSeq(s, i + 1, Len(s)), sep)

\* Array.prototype.join
RECURSIVE join(_, _)
join(parts, sep) ==
    IF parts = <<>> THEN <<>>
    ELSE IF Len(parts) = 1 THEN parts[1]
    ELSE parts[1] \o sep \o join(Tail(parts), sep)

isDigits(s) == s # <<>> /\ Chars(s) \subseteq Chars(DigitChars)

\* unary plus on a string of digits
RECURSIVE toNumber(_)
toNumber(s) ==
    IF s = <<>> THEN 0
    ELSE 10 * toNumber(SubSeq(s, 1, Len(s) - 1))
         + (IndexOf(s[Len(s)], DigitChars) - 1)

\* template-literal rendering of a non-negative integer
RECURSIVE numberToString(_)
numberToString(n) ==
    IF n < 10 THEN <<DigitChars[n + 1]>>
    ELSE numberToString(n \div 10) \o <<DigitChars[(n % 10) + 1]>>

\* a < b on two strings (code-unit order)
RECURSIVE stringLess(_, _)
stringLess(a, b) ==
    IF b = <<>> THEN FALSE
    ELSE IF a = <<>> THEN TRUE
    ELSE IF a[1] = b[1] THEN stringLess(Tail(a), Tail(b))
    ELSE IndexOf(a[1], CodeUnits) < IndexOf(b[1], CodeUnits)

(* ------------------------- semantic versions -------------------------- *)

\* 0|[1-9]\d*
NumericIdentifier(s) == isDigits(s) /\ (Len(s) = 1 \/ s[1] # "0")
\* [a-zA-Z0-9-]+
BuildIdentifier(s) == s # <<>> /\ Chars(s) \subseteq Chars(CodeUnits)
\* \d*[a-zA-Z-][a-zA-Z0-9-]*
NonNumericIdentifier(s) == BuildIdentifier(s) /\ ~isDigits(s)
PrereleaseIdentifier(s) == NumericIdentifier(s) \/ NonNumericIdentifier(s)

NotAVersion ==
    [valid |-> FALSE, major |-> 0, minor |-> 0, patch |-> 0,
     prerelease |-> <<>>, build |-> <<>>]

\* new SemVer(version), strict mode: trims, matches ^v?M.m.p(-pre)?(+build)?$;
\* valid = FALSE stands for the TypeError it throws.  The length and
\* MAX_SAFE_INTEGER limits are out of reach of the bounded inputs.
SemVer(version) ==
    LET t == trim(version)
        body == IF t # <<>> /\ t[1] = "v" THEN Tail(t) ELSE t
        plus == IndexOf("+", body)
        front == IF plus = 0 THEN body ELSE SubSeq(body, 1, plus - 1)
        dash == IndexOf("-", front)
        main == IF dash = 0 THEN front ELSE SubSeq(front, 1, dash - 1)
        nums == split(main, ".")
        pre == IF dash = 0 THEN <<>>
               ELSE split(SubSeq(front, dash + 1, Len(front)), ".")
        build == IF plus = 0 THEN <<>>
                 ELSE split(SubSeq(body, plus + 1, Len(body)), ".")
        ok == /\ Len(nums) = 3
              /\ \A i \in 1..Len(nums) : NumericIdentifier(nums[i])
              /\ \A i \in 1..Len(pre) : PrereleaseIdentifier(pre[i])
              /\ \A i \in 1..Len(build) : BuildIdentifier(build[i])
    IN  IF ok
        THEN [valid |-> TRUE, major |-> toNumber(nums[1]),
              minor |-> toNumber(nums[2]), patch |-> toNumber(nums[3]),
              prerelease |-> pre, build |-> build]
        ELSE NotAVersion

\* SemVer.format(): major.minor.patch, then -prerelease; build metadata dropped
format(v) ==
    numberToString(v.major) \o <<".">> \o numberToString(v.minor) \o <<".">>
    \o numberToString(v.patch)
    \o (IF v.prerelease # <<>> THEN <<"-">> \o join(v.prerelease, <<".">>) ELSE <<>>)

sign(a, b) == IF a = b THEN 0 ELSE IF a < b THEN -1 ELSE 1

compareIdentifiers(a, b) ==
    LET anum == isDigits(a)
        bnum == isDigits(b)
    IN  IF anum /\ bnum THEN sign(toNumber(a), toNumber(b))
        ELSE IF a = b THEN 0
        ELSE IF anum /\ ~bnum THEN -1
        ELSE IF bnum /\ ~anum THEN 1
        ELSE IF stringLess(a, b) THEN -1 ELSE 1

compareMain(a, b) ==
    IF a.major # b.major THEN sign(a.major, b.major)
    ELSE IF a.minor # b.minor THEN sign(a.minor, b.minor)
    ELSE sign(a.patch, b.patch)

RECURSIVE comparePreFrom(_, _, _)
comparePreFrom(p, q, i) ==
    IF i > Len(p) /\ i > Len(q) THEN 0
    ELSE IF i > Len(q) THEN 1
    ELSE IF i > Len(p) THEN -1
    ELSE IF p[i] = q[i] THEN comparePreFrom(p, q, i + 1)
    ELSE compareIdentifiers(p[i], q[i])

comparePre(a, b) ==
    IF a.prerelease # <<>> /\ b.prerelease = <<>> THEN -1
    ELSE IF a.prerelease = <<>> /\ b.prerelease # <<>> THEN 1
    ELSE IF a.prerelease = <<>> /\ b.prerelease = <<>> THEN 0
    ELSE comparePreFrom(a.prerelease, b.prerelease, 1)

\* SemVer.compare(other)
compare(a, b) ==
    IF compareMain(a, b) # 0 THEN compareMain(a, b) ELSE comparePre(a, b)


(* ----------------------- shell-quote's parse -------------------------- *)

ControlOperators == {"|", "&", ";", "(", ")", "<", ">"}

\* parse(extraArgs) of shell-quote: a sequence of entries, a plain word
\* (op = FALSE) or an operator object (op = TRUE).  Covers blanks, double
\* quotes and the one-character control operators.
RECURSIVE parseFrom(_, _, _, _, _)
parseFrom(s, i, word, inWord, quoted) ==
    LET flush == IF inWord THEN <<[op |-> FALSE, text |-> word]>> ELSE <<>> IN
    IF i > Len(s) THEN flush
    ELSE IF quoted
    THEN IF s[i] = "\""
         THEN parseFrom(s, i + 1, word, TRUE, FALSE)
         ELSE parseFrom(s, i + 1, Append(word, s[i]), TRUE, TRUE)
    ELSE IF s[i] = "\"" THEN parseFrom(s, i + 1, word, TRUE, TRUE)
    ELSE IF s[i] \in Whitespace
    THEN flush \o parseFrom(s, i + 1, <<>>, FALSE, FALSE)
    ELSE IF s[i] \in ControlOperators
    THEN flush \o <<[op |-> TRUE, text |-> <<s[i]>>]>>
         \o parseFrom(s, i + 1, <<>>, FALSE, FALSE)
    ELSE parseFrom(s, i + 1, Append(word, s[i]), TRUE, FALSE)

parse(s) == parseFrom(s, 1, <<>>, FALSE, FALSE)

(* ------------------------------- state -------------------------------- *)

VARIABLES
    env,          \* the action's inputs: input name -> raw INPUT_* value
    manifest,     \* what the pylance-release manifest URL answers
    registry,     \* what the npm registry URL answers
    toolCache,    \* the runner's tool cache and tarball download
    pc,           \* where getArgs stands
    version,      \* getPyrightInfo's version
    pylance,      \* getPylancePyrightVersion's pylanceVersion
    pyrightInfo,  \* getArgs' pyrightInfo
    pyrightPath,  \* getArgs' pyrightPath
    trace,        \* the calls made to the host so far, in order
    log,          \* the core.info lines written so far
    result,       \* what getArgs resolved or rejected with
    diag,         \* diagnosticToString's diag
    forCommand,   \* diagnosticToString's forCommand
    message       \* diagnosticToString's return value, once called

vars == <<env, manifest, registry, toolCache, pc, version, pylance,
          pyrightInfo, pyrightPath, trace, log, result, diag, forCommand,
          message>>

runVars == <<env, manifest, registry, toolCache, pc, version, pylance,
             pyrightInfo, pyrightPath, trace, log, result>>

diagVars == <<diag, forCommand, message>>

InputNames ==
    {"version", "pylance-version", "working-directory", "create-stub",
     "dependencies", "ignore-external", "level", "project",
     "python-platform", "python-path", "python-version", "skip-unannotated",
     "stats", "typeshed-path", "venv-path", "verbose", "verify-types",
     "warnings", "lib", "extra-args", "annotate", "no-comments"}

\* core.getInput(name): the raw value, trimmed; "" when not set
getInput(name) == trim(env[name])

HttpCodesOK == 200

Pending ==
    [kind |-> "pending", error |-> "", workingDirectory |-> <<>>,
     annotate |-> {}, pyrightVersion |-> <<>>, args |-> <<>>]

\* a rejected promise: the throw statement that raised it
Rejected(why) == [Pending EXCEPT !.kind = "error", !.error = why]

(* ---------------------------- getArgs: flags -------------------------- *)

\* mutant: --dependencies left out
flagsWithoutDependencies ==
    {<<"-","-","v","e","r","i","f","y","t","y","p","e","s">>, <<"-","-","s","t","a","t","s">>, <<"-","-","v","e","r","b","o","s","e">>, <<"-","-","c","r","e","a","t","e","s","t","u","b">>}

flagsWithoutCommentingSupport ==
    {<<"-","-","v","e","r","i","f","y","t","y","p","e","s">>, <<"-","-","s","t","a","t","s">>, <<"-","-","v","e","r","b","o","s","e">>, <<"-","-","c","r","e","a","t","e","s","t","u","b">>,
     <<"-","-","d","e","p","e","n","d","e","n","c","i","e","s">>}

\* mutant: "none" in any case
isAnnotateNoneAnyCase(name) == toUpperCase(name) = <<"N","O","N","E">> \/ toUpperCase(name) = <<"F","A","L","S","E">>

isAnnotateNone(name) == name = <<"n","o","n","e">> \/ toUpperCase(name) = <<"F","A","L","S","E">>

isAnnotateAll(name) == name = <<"a","l","l">> \/ toUpperCase(name) = <<"T","R","U","E">>

\* mutant: every value but "false" counts as true
getBooleanInputTruthy(name, defaultValue) ==
    LET input == getInput(name) IN
    IF input = <<>> THEN defaultValue ELSE toUpperCase(input) # <<"F","A","L","S","E">>

getBooleanInput(name, defaultValue) ==
    LET input == getInput(name) IN
    IF input = <<>> THEN defaultValue ELSE toUpperCase(input) = <<"T","R","U","E">>

\* mutant: <= instead of <
useDashedFlagsInclusive(pyrightVersion) == compare(pyrightVersion, SemVer(<<"1",".","1",".","3","0","9">>)) # 1

\* pyrightVersion.compare("1.1.309") === -1
useDashedFlags(pyrightVersion) == compare(pyrightVersion, SemVer(<<"1",".","1",".","3","0","9">>)) = -1

\* mutant: the value before its flag
pushValuedSwapped(args, flag, value) ==
    IF value # <<>> THEN args \o <<value, flag>> ELSE args

\* args.push(flag, value) under if (value)
pushValued(args, flag, value) ==
    IF value # <<>> THEN args \o <<flag, value>> ELSE args

\* args.push(flag) under if (cond)
pushFlag(args, flag, cond) == IF cond THEN Append(args, flag) ELSE args

typeshedPathFlag(dashed) == IF dashed THEN <<"-","-","t","y","p","e","s","h","e","d","-","p","a","t","h">> ELSE <<"-","-","t","y","p","e","s","h","e","d","p","a","t","h">>

venvPathFlag(dashed) == IF dashed THEN <<"-","-","v","e","n","v","-","p","a","t","h">> ELSE <<"-","-","v","e","n","v","p","a","t","h">>

\* mutant: verbose spelled --verbose
verboseFlagVerbose == <<"-","-","v","e","r","b","o","s","e">>

verboseFlag == <<"-","-","l","i","b">>

\* the argument vector after the named options (lines 64-152)
optionArgs(dashed) ==
    LET a0 == <<pyrightPath \o <<"/","p","a","c","k","a","g","e","/","i","n","d","e","x",".","j","s">>>>
        a1 == pushValued(a0, <<"-","-","c","r","e","a","t","e","s","t","u","b">>, getInput("create-stub"))
        a2 == pushValued(a1, <<"-","-","d","e","p","e","n","d","e","n","c","i","e","s">>, getInput("dependencies"))
        a3 == pushFlag(a2, <<"-","-","i","g","n","o","r","e","e","x","t","e","r","n","a","l">>, getInput("ignore-external") # <<>>)
        a4 == pushValued(a3, <<"-","-","l","e","v","e","l">>, getInput("level"))
        a5 == pushValued(a4, <<"-","-","p","r","o","j","e","c","t">>, getInput("project"))
        a6 == pushValued(a5, <<"-","-","p","y","t","h","o","n","p","l","a","t","f","o","r","m">>, getInput("python-platform"))
        a7 == pushValued(a6, <<"-","-","p","y","t","h","o","n","p","a","t","h">>, getInput("python-path"))
        a8 == pushValued(a7, <<"-","-","p","y","t","h","o","n","v","e","r","s","i","o","n">>, getInput("python-version"))
        a9 == pushFlag(a8, <<"-","-","s","k","i","p","u","n","a","n","n","o","t","a","t","e","d">>, getBooleanInput("skip-unannotated", FALSE))
        a10 == pushFlag(a9, <<"-","-","s","t","a","t","s">>, getBooleanInput("stats", FALSE))
        a11 == pushValued(a10, typeshedPathFlag(dashed), getInput("typeshed-path"))
        a12 == pushValued(a11, venvPathFlag(dashed), getInput("venv-path"))
        a13 == pushFlag(a12, verboseFlag, getBooleanInput("verbose", FALSE))
        a14 == pushValued(a13, <<"-","-","v","e","r","i","f","y","t","y","p","e","s">>, getInput("verify-types"))
        a15 == pushFlag(a14, <<"-","-","w","a","r","n","i","n","g","s">>, getBooleanInput("warnings", FALSE))
        a16 == pushFlag(a15, <<"-","-","l","i","b">>, getBooleanInput("lib", FALSE))
    IN  a16

\* the loop over parse(extraArgs) (lines 154-163): ok = FALSE is the throw
extraArgsOf(extraArgs) ==
    LET entries == IF extraArgs # <<>> THEN parse(extraArgs) ELSE <<>> IN
    [ok |-> \A i \in 1..Len(entries) : ~entries[i].op,
     words |-> [i \in 1..Len(entries) |-> entries[i].text]]

\* lines 165-170
normalizeAnnotate(raw) ==
    LET annotateInput == IF trim(raw) # <<>> THEN trim(raw) ELSE <<"a","l","l">> IN
    IF isAnnotateNone(annotateInput) THEN <<>>
    ELSE IF isAnnotateAll(annotateInput) THEN <<"e","r","r","o","r","s",","," ","w","a","r","n","i","n","g","s">>
    ELSE annotateInput

\* mutant: a value that is neither errors nor warnings is skipped
annotateValueLenient(value) ==
    IF trim(value) = <<"e","r","r","o","r","s">> THEN [ok |-> TRUE, add |-> {"error"}, error |-> ""]
    ELSE IF trim(value) = <<"w","a","r","n","i","n","g","s">> THEN [ok |-> TRUE, add |-> {"warning"}, error |-> ""]
    ELSE [ok |-> TRUE, add |-> {}, error |-> ""]

\* one turn of the switch (lines 176-195)
annotateValue(value) ==
    IF trim(value) = <<"e","r","r","o","r","s">> THEN [ok |-> TRUE, add |-> {"error"}, error |-> ""]
    ELSE IF trim(value) = <<"w","a","r","n","i","n","g","s">> THEN [ok |-> TRUE, add |-> {"warning"}, error |-> ""]
    ELSE IF isAnnotateAll(trim(value)) \/ isAnnotateNone(trim(value))
    THEN [ok |-> FALSE, add |-> {}, error |-> "invalid value in comma-separated annotate"]
    ELSE [ok |-> FALSE, add |-> {}, error |-> "invalid value for annotate"]

\* the loop over split (lines 172-196): stops at the first throw
RECURSIVE annotateLoop(_, _, _)
annotateLoop(splitted, i, annotate) ==
    IF i > Len(splitted) THEN [ok |-> TRUE, annotate |-> annotate, error |-> ""]
    ELSE LET r == annotateValue(splitted[i]) IN
         IF r.ok THEN annotateLoop(splitted, i + 1, annotate \cup r.add)
         ELSE [ok |-> FALSE, annotate |-> annotate, error |-> r.error]

annotateOf(raw) ==
    LET annotateInput == normalizeAnnotate(raw)
        splitted == IF annotateInput # <<>> THEN split(annotateInput, ",") ELSE <<>>
    IN  annotateLoop(splitted, 1, {})

\* lines 198-200
noCommentsOf(args) ==
    \/ getBooleanInput("no-comments", FALSE)
    \/ \E i \in 1..Len(args) : args[i] \in flagsWithoutCommentingSupport

(* ------------------------- schema.ts parsers -------------------------- *)

\* parsePylanceBuildMetadata: an object with a pyrightVersion string, or a throw
parsePylanceBuildMetadata(body) ==
    [ok |-> body.shape = "ok", pyrightVersion |-> body.version]

\* parseNpmRegistryResponse: an object with version and dist.tarball, or a throw
parseNpmRegistryResponse(body) ==
    [ok |-> body.shape = "ok", version |-> body.version]

(* --------------------------- getArgs: steps --------------------------- *)

\* mutant: return versionSpec as given
normalizedRaw(versionSpec) == versionSpec

\* new SemVer(versionSpec).format()
normalized(versionSpec) == format(SemVer(versionSpec))

\* mutant: the status is not looked at
statusOKAlways(resp) == TRUE

\* resp.message.statusCode === httpClient.HttpCodes.OK
statusOK(resp) == resp.status = HttpCodesOK

throw(why) ==
    /\ pc' = "failed"
    /\ result' = Rejected(why)

\* getPyrightVersion up to its return or its call of getPylancePyrightVersion
getPyrightVersion ==
    /\ pc = "getPyrightVersion"
    /\ LET versionSpec == getInput("version")
           pylanceVersion == getInput("pylance-version")
       IN  IF versionSpec # <<>>
           THEN /\ trace' = trace \o <<"getInput version">>
                /\ pylance' = pylance
                /\ IF SemVer(versionSpec).valid
                   THEN /\ version' = normalized(versionSpec)
                        /\ pc' = "getPyrightInfo"
                        /\ result' = result
                   ELSE /\ version' = version
                        /\ throw("SemVer(version)")
           ELSE /\ trace' = trace \o <<"getInput version", "getInput pylance-version">>
                /\ IF pylanceVersion # <<>>
                   THEN IF /\ pylanceVersion # <<"l","a","t","e","s","t","-","r","e","l","e","a","s","e">>
                           /\ pylanceVersion # <<"l","a","t","e","s","t","-","p","r","e","r","e","l","e","a","s","e">>
                           /\ ~SemVer(pylanceVersion).valid
                        THEN /\ throw("SemVer(pylance-version)")
                             /\ UNCHANGED <<version, pylance>>
                        ELSE /\ pylance' = pylanceVersion
                             /\ pc' = "getPylancePyrightVersion"
                             /\ UNCHANGED <<version, result>>
                   ELSE /\ version' = <<"l","a","t","e","s","t">>
                        /\ pc' = "getPyrightInfo"
                        /\ UNCHANGED <<pylance, result>>
    /\ UNCHANGED <<env, manifest, registry, toolCache, pyrightInfo,
                   pyrightPath, log>>
    /\ UNCHANGED diagVars

getPylancePyrightVersion ==
    /\ pc = "getPylancePyrightVersion"
    /\ trace' = Append(trace, "GET pylance-release")
    /\ IF ~statusOK(manifest)
       THEN /\ throw("Failed to download release metadata for Pylance")
            /\ UNCHANGED <<version, log>>
       ELSE IF manifest.body.shape = "not json"
       THEN /\ throw("JSON.parse")
            /\ UNCHANGED <<version, log>>
       ELSE IF ~parsePylanceBuildMetadata(manifest.body).ok
       THEN /\ throw("parsePylanceBuildMetadata")
            /\ UNCHANGED <<version, log>>
       ELSE LET pyrightVersion == parsePylanceBuildMetadata(manifest.body).pyrightVersion IN
            /\ log' = Append(log, <<"P","y","l","a","n","c","e"," ">> \o pylance \o <<" ","u","s","e","s"," ","p","y","r","i","g","h","t"," ">> \o pyrightVersion)
            /\ version' = pyrightVersion
            /\ pc' = "getPyrightInfo"
            /\ result' = result
    /\ UNCHANGED <<env, manifest, registry, toolCache, pylance, pyrightInfo,
                   pyrightPath>>
    /\ UNCHANGED diagVars

\* getPyrightInfo after getPyrightVersion has returned
getPyrightInfo ==
    /\ pc = "getPyrightInfo"
    /\ trace' = Append(trace, "GET registry")
    /\ IF ~statusOK(registry)
       THEN /\ throw("Failed to download metadata for pyright")
            /\ pyrightInfo' = pyrightInfo
       ELSE IF registry.body.shape = "not json"
       THEN /\ throw("JSON.parse")
            /\ pyrightInfo' = pyrightInfo
       ELSE IF ~parseNpmRegistryResponse(registry.body).ok
       THEN /\ throw("parseNpmRegistryResponse")
            /\ pyrightInfo' = pyrightInfo
       ELSE /\ pyrightInfo' = [version |-> parseNpmRegistryResponse(registry.body).version]
            /\ pc' = "downloadPyright"
            /\ result' = result
    /\ UNCHANGED <<env, manifest, registry, toolCache, version, pylance,
                   pyrightPath, log>>
    /\ UNCHANGED diagVars

downloadPyright ==
    /\ pc = "downloadPyright"
    /\ IF toolCache.found
       THEN /\ trace' = Append(trace, "tc.find")
            /\ pyrightPath' = <<"/","t","c","/","p","y","r","i","g","h","t","/">> \o pyrightInfo.version
            /\ pc' = "buildArgs"
            /\ result' = result
       ELSE IF ~toolCache.downloadOk
       THEN /\ trace' = trace \o <<"tc.find", "tc.downloadTool">>
            /\ pyrightPath' = pyrightPath
            /\ throw("tc.downloadTool")
       ELSE /\ trace' = trace \o <<"tc.find", "tc.downloadTool", "tc.extractTar", "tc.cacheDir">>
            /\ pyrightPath' = <<"/","t","c","/","p","y","r","i","g","h","t","/">> \o pyrightInfo.version
            /\ pc' = "buildArgs"
            /\ result' = result
    /\ UNCHANGED <<env, manifest, registry, toolCache, version, pylance,
                   pyrightInfo, log>>
    /\ UNCHANGED diagVars

\* getArgs from the SemVer of line 60 to its return
buildArgs ==
    /\ pc = "buildArgs"
    /\ LET pyrightVersion == SemVer(pyrightInfo.version)
           named == optionArgs(useDashedFlags(pyrightVersion))
           extra == extraArgsOf(getInput("extra-args"))
           args == named \o extra.words
           annotate == annotateOf(getInput("annotate"))
       IN  IF ~pyrightVersion.valid THEN throw("SemVer(pyrightInfo.version)")
           ELSE IF ~extra.ok THEN throw("malformed extra-args")
           ELSE IF ~annotate.ok THEN throw(annotate.error)
           ELSE /\ pc' = "done"
                /\ result' =
                     [kind |-> "args", error |-> "",
                      workingDirectory |-> getInput("working-directory"),
                      annotate |-> IF noCommentsOf(args) THEN {} ELSE annotate.annotate,
                      pyrightVersion |-> pyrightInfo.version,
                      args |-> args]
    /\ UNCHANGED <<env, manifest, registry, toolCache, version, pylance,
                   pyrightInfo, pyrightPath, trace, log>>
    /\ UNCHANGED diagVars

(* ------------------------- diagnosticToString ------------------------- *)

\* an optional field: <<>> is undefined, <<v>> holds v
truthy(field) == field # <<>> /\ field[1] # <<>>

\* isEmptyRange of schema.ts
isEmptyRange(range) == range.start = range.end

\* mutant: the 0-based number is shown
zeroBased(n) == n

\* the 1-based number shown for a 0-based line or character
oneBased(n) == n + 1

diagnosticToStringOf(d, command) ==
    LET m0 == <<>>
        m1 == IF ~command /\ truthy(d.file) THEN m0 \o d.file[1] \o <<":">> ELSE m0
        m2 == IF ~command /\ d.range # <<>> /\ ~isEmptyRange(d.range[1])
              THEN m1 \o numberToString(oneBased(d.range[1].start.line)) \o <<":">>
                      \o numberToString(oneBased(d.range[1].start.character)) \o <<" ","-">>
              ELSE m1
        m3 == IF ~command THEN m2 \o <<" ">> \o d.severity \o <<":"," ">> ELSE m2
        m4 == m3 \o d.message
        m5 == IF truthy(d.rule) THEN m4 \o <<" ","(">> \o d.rule[1] \o <<")">> ELSE m4
    IN  m5

diagnosticToString ==
    /\ pc = "diagnostic"
    /\ message = <<>>
    /\ message' = <<diagnosticToStringOf(diag, forCommand)>>
    /\ UNCHANGED <<diag, forCommand>>
    /\ UNCHANGED runVars

(* ------------------------- inputs of the runs ------------------------- *)

PatchPivot == 309

DefaultEnv == [n \in InputNames |-> <<>>]

Body(shape, v) == [shape |-> shape, version |-> v]
Response(status, body) == [status |-> status, body |-> body]
Scenario(e, m, r, t) == [env |-> e, manifest |-> m, registry |-> r, toolCache |-> t]

Cached == [found |-> TRUE, downloadOk |-> TRUE]
ToolCaches ==
    {Cached, [found |-> FALSE, downloadOk |-> TRUE], [found |-> FALSE, downloadOk |-> FALSE]}

OkManifest == Response(HttpCodesOK, Body("ok", <<"1",".","1",".","3","0","8">>))
OkRegistry(v) == Response(HttpCodesOK, Body("ok", v))

\* version strings written from their parts
renderVersion(prefix, core, pre, build) ==
    prefix \o numberToString(core[1]) \o <<".">> \o numberToString(core[2]) \o <<".">>
    \o numberToString(core[3])
    \o (IF pre # <<>> THEN <<"-">> \o pre ELSE <<>>)
    \o (IF build # <<>> THEN <<"+">> \o build ELSE <<>>)

Cores ==
    {<<1, 1, p>> : p \in (PatchPivot - MaxPatchDelta)..(PatchPivot + MaxPatchDelta)}
    \cup {<<1, 0, 310>>, <<0, 9, 999>>, <<1, 2, 0>>, <<2, 0, 0>>, <<1, 1, 1000>>,
          <<1, 1, 31>>, <<1, 10, 0>>}

PyrightVersions ==
    {renderVersion(prefix, core, pre, build) :
        prefix \in {<<>>, <<"v">>}, core \in Cores,
        pre \in {<<>>, <<"b","e","t","a",".","1">>, <<"0">>}, build \in {<<>>, <<"b","1">>}}

\* the values of the version input
VersionSpecs ==
    {<<>>, <<"1",".","1",".","3","0","9">>, <<"v","1",".","1",".","3","0","8">>, <<"1",".","1",".","3","1","0","-","b","e","t","a",".","1","+","b","1">>, <<" ","1",".","2",".","0"," ">>, <<"1",".","1">>,
     <<"l","a","t","e","s","t">>, <<"0","1",".","1",".","1">>}

\* the values of the pylance-version input
PylanceVersions ==
    {<<>>, <<"l","a","t","e","s","t","-","r","e","l","e","a","s","e">>, <<"l","a","t","e","s","t","-","p","r","e","r","e","l","e","a","s","e">>, <<"2","0","2","3",".","5",".","1","0">>, <<"2","0","2","3",".","5">>,
     <<"L","a","t","e","s","t","-","R","e","l","e","a","s","e">>}

Manifests ==
    {OkManifest,
     Response(HttpCodesOK, Body("ok", <<"1",".","1",".","3","1","0">>)),
     Response(HttpCodesOK, Body("wrong shape", <<>>)),
     Response(HttpCodesOK, Body("not json", <<>>)),
     Response(404, Body("not json", <<>>)),
     Response(404, Body("ok", <<"1",".","1",".","3","0","8">>))}

Registries ==
    {OkRegistry(<<"1",".","1",".","3","0","9">>),
     OkRegistry(<<"1",".","1">>),
     Response(HttpCodesOK, Body("wrong shape", <<>>)),
     Response(HttpCodesOK, Body("not json", <<>>)),
     Response(404, Body("ok", <<"1",".","1",".","3","0","9">>))}

\* the values of a boolean input
BooleanValues ==
    {<<>>, <<"t","r","u","e">>, <<"T","R","U","E">>, <<"t","R","u","E">>, <<"f","a","l","s","e">>, <<"F","A","L","S","E">>, <<"1">>, <<"y","e","s">>, <<"t","r","u","e","e">>,
     <<" ","T","r","u","e"," ">>}

BooleanInputs ==
    {"skip-unannotated", "stats", "verbose", "warnings", "lib", "no-comments"}

\* sequences over S of length 1..n
RECURSIVE SeqsUpTo(_, _)
SeqsUpTo(S, n) ==
    IF n = 0 THEN {}
    ELSE {<<x>> : x \in S}
         \cup {Append(q, x) : q \in SeqsUpTo(S, n - 1), x \in S}

ExtraArgsWords == {<<"x">>, <<"-","-","s","t","a","t","s">>, <<"-","-","l","i","b">>, <<"|">>, <<"\"","-","-"," ","v","e","r","b","o","s","e","\"">>}

\* the values of the extra-args input
ExtraArgsValues ==
    {<<>>} \cup {join(q, <<" ">>) : q \in SeqsUpTo(ExtraArgsWords, MaxExtraArgs)}

AnnotateTokens ==
    {<<"e","r","r","o","r","s">>, <<"w","a","r","n","i","n","g","s">>, <<" ","e","r","r","o","r","s"," ">>, <<"e","r","r","o","r">>, <<"a","l","l">>, <<"n","o","n","e">>, <<"T","R","U","E">>, <<>>}

\* the values of the annotate input
AnnotateValues ==
    {join(q, <<",">>) : q \in SeqsUpTo(AnnotateTokens, MaxAnnotateTokens)}
    \cup {<<"N","o","n","e">>, <<"N","O","N","E">>, <<"f","a","l","s","e">>, <<"F","a","l","s","e">>, <<"A","l","l">>, <<"A","L","L">>, <<"t","r","u","e">>, <<"t","R","u","E">>,
          <<" "," ">>, <<"E","r","r","o","r","s">>, <<" ","n","o","n","e"," ">>, <<"\t","a","l","l">>}

\* the version, the companion version and what the network and cache answer
VersionScenarios ==
    {Scenario([DefaultEnv EXCEPT !["version"] = v, !["pylance-version"] = p], m, r, t) :
        v \in VersionSpecs, p \in PylanceVersions, m \in Manifests,
        r \in Registries, t \in ToolCaches}

\* the pyright version and the two renamed flags
SpellingScenarios ==
    {Scenario([DefaultEnv EXCEPT !["typeshed-path"] = ts, !["venv-path"] = ve],
              OkManifest, OkRegistry(v), Cached) :
        v \in PyrightVersions, ts \in {<<>>, <<"t","s">>}, ve \in {<<>>, <<"v","e","n","v">>}}

\* each valued option set or not
OptionScenarios ==
    {Scenario([n \in InputNames |->
                 IF n = "create-stub" THEN cs
                 ELSE IF n = "dependencies" THEN dp
                 ELSE IF n = "ignore-external" THEN ie
                 ELSE IF n = "level" THEN lv
                 ELSE IF n = "project" THEN pj
                 ELSE IF n = "python-platform" THEN pp
                 ELSE IF n = "python-path" THEN ph
                 ELSE IF n = "python-version" THEN pv
                 ELSE IF n = "typeshed-path" THEN ts
                 ELSE IF n = "venv-path" THEN ve
                 ELSE IF n = "verify-types" THEN vt
                 ELSE IF n = "working-directory" THEN <<"w","d">>
                 ELSE IF n \in BooleanInputs \ {"no-comments"} THEN b
                 ELSE IF n = "extra-args" THEN ea
                 ELSE <<>>],
              OkManifest, OkRegistry(<<"1",".","1",".","3","0","9">>), Cached) :
        cs \in {<<>>, <<"c","s">>}, dp \in {<<>>, <<"d","p">>}, ie \in {<<>>, <<"f","a","l","s","e">>},
        lv \in {<<>>, <<"l","v">>}, pj \in {<<>>, <<"p","j">>}, pp \in {<<>>, <<"p","p">>},
        ph \in {<<>>, <<"p","h">>}, pv \in {<<>>, <<"p","v">>}, ts \in {<<>>, <<"t","s">>},
        ve \in {<<>>, <<"v","e">>}, vt \in {<<>>, <<"v","t">>}, b \in {<<>>, <<"t","r","u","e">>},
        ea \in {<<>>, <<"x"," ","\"","y"," ","z","\"">>}}

\* one boolean input over all its values; all of them over three values
BooleanScenarios ==
    {Scenario([DefaultEnv EXCEPT ![n] = b, !["annotate"] = a],
              OkManifest, OkRegistry(<<"1",".","1",".","3","0","9">>), Cached) :
        n \in BooleanInputs, b \in BooleanValues, a \in {<<>>, <<"e","r","r","o","r","s">>}}
    \cup
    {Scenario([n \in InputNames |->
                 IF n = "skip-unannotated" THEN b1
                 ELSE IF n = "stats" THEN b2
                 ELSE IF n = "verbose" THEN b3
                 ELSE IF n = "warnings" THEN b4
                 ELSE IF n = "lib" THEN b5
                 ELSE IF n = "no-comments" THEN b6
                 ELSE IF n = "annotate" THEN a
                 ELSE <<>>],
              OkManifest, OkRegistry(<<"1",".","1",".","3","0","9">>), Cached) :
        b1 \in {<<>>, <<"T","r","u","e">>, <<"f","a","l","s","e">>}, b2 \in {<<>>, <<"T","r","u","e">>, <<"f","a","l","s","e">>},
        b3 \in {<<>>, <<"T","r","u","e">>, <<"f","a","l","s","e">>}, b4 \in {<<>>, <<"T","r","u","e">>, <<"f","a","l","s","e">>},
        b5 \in {<<>>, <<"T","r","u","e">>, <<"f","a","l","s","e">>}, b6 \in {<<>>, <<"T","r","u","e">>, <<"f","a","l","s","e">>},
        a \in {<<>>, <<"e","r","r","o","r","s">>}}

\* the annotate directive under each source of a flag without commenting support
SuppressScenarios ==
    {Scenario([DefaultEnv EXCEPT ![n] = IF n = "project" THEN <<"-","-","s","t","a","t","s">> ELSE <<"t","r","u","e">>,
                                 !["annotate"] = a, !["no-comments"] = nc,
                                 !["extra-args"] = ea],
              OkManifest, OkRegistry(<<"1",".","1",".","3","0","9">>), Cached) :
        n \in {"working-directory", "stats", "create-stub", "dependencies",
               "verify-types", "verbose", "project"},
        a \in {<<>>, <<"n","o","n","e">>, <<"w","a","r","n","i","n","g","s",",","e","r","r","o","r","s">>},
        nc \in {<<>>, <<"t","r","u","e">>}, ea \in ExtraArgsValues}

AnnotateScenarios ==
    {Scenario([DefaultEnv EXCEPT !["annotate"] = a, !["no-comments"] = nc],
              OkManifest, OkRegistry(<<"1",".","1",".","3","0","9">>), Cached) :
        a \in AnnotateValues, nc \in {<<>>, <<"T","R","U","E">>}}

Scenarios ==
    VersionScenarios \cup SpellingScenarios \cup OptionScenarios
    \cup BooleanScenarios \cup SuppressScenarios \cup AnnotateScenarios

NoDiagnostic ==
    [file |-> <<>>, range |-> <<>>, severity |-> <<>>, message |-> <<>>, rule |-> <<>>]

Positions == {[line |-> l, character |-> c] : l \in 0..MaxPosition, c \in 0..MaxPosition}

Diagnostics ==
    {[file |-> f, range |-> r, severity |-> s, message |-> m, rule |-> u] :
        f \in {<<>>, <<<<>>>>, <<<<"a",".","p","y">>>>},
        r \in {<<>>} \cup {<<[start |-> st, end |-> en]>> : st \in Positions, en \in Positions},
        s \in {<<"e","r","r","o","r">>, <<"w","a","r","n","i","n","g">>, <<"i","n","f","o","r","m","a","t","i","o","n">>},
        m \in {<<"b","a","d">>, <<>>},
        u \in {<<>>, <<<<>>>>, <<<<"r","e","p","o","r","t","X">>>>}}

(* --------------------------- specifications --------------------------- *)

Init ==
    /\ \E s \in Scenarios :
        /\ env = s.env
        /\ manifest = s.manifest
        /\ registry = s.registry
        /\ toolCache = s.toolCache
    /\ pc = "getPyrightVersion"
    /\ version = <<>>
    /\ pylance = <<>>
    /\ pyrightInfo = [version |-> <<>>]
    /\ pyrightPath = <<>>
    /\ trace = <<>>
    /\ log = <<>>
    /\ result = Pending
    /\ diag = NoDiagnostic
    /\ forCommand = FALSE
    /\ message = <<>>

Next ==
    \/ getPyrightVersion
    \/ getPylancePyrightVersion
    \/ getPyrightInfo
    \/ downloadPyright
    \/ buildArgs

Spec == Init /\ [][Next]_vars

InitDiagnostic ==
    /\ env = DefaultEnv
    /\ manifest = OkManifest
    /\ registry = OkRegistry(<<"1",".","1",".","3","0","9">>)
    /\ toolCache = Cached
    /\ pc = "diagnostic"
    /\ version = <<>>
    /\ pylance = <<>>
    /\ pyrightInfo = [version |-> <<>>]
    /\ pyrightPath = <<>>
    /\ trace = <<>>
    /\ log = <<>>
    /\ result = Pending
    /\ diag \in Diagnostics
    /\ forCommand \in BOOLEAN
    /\ message = <<>>

NextDiagnostic == diagnosticToString

SpecDiagnostic == InitDiagnostic /\ [][NextDiagnostic]_vars

(* ------------------------------ claims -------------------------------- *)

Count(q, x) == Cardinality({i \in 1..Len(q) : q[i] = x})
InTrace(e) == \E i \in 1..Len(trace) : trace[i] = e
Returned == result.kind = "args"
HasArg(f) == \E i \in 1..Len(result.args) : result.args[i] = f
HasPair(f, v) ==
    \E i \in 1..(Len(result.args) - 1) : result.args[i] = f /\ result.args[i + 1] = v

\* the words of the extra-args input
ExtraWords ==
    LET entries == parse(getInput("extra-args")) IN
    [i \in 1..Len(entries) |-> entries[i].text]
MalformedExtraArgs ==
    \E i \in 1..Len(parse(getInput("extra-args"))) : parse(getInput("extra-args"))[i].op

\* whether a boolean input reads as true
IsTrue(name) == toUpperCase(getInput(name)) = <<"T","R","U","E">>

\* the trimmed tokens of the normalized annotate directive
DirectiveTokens ==
    LET n == normalizeAnnotate(getInput("annotate"))
        parts == IF n = <<>> THEN <<>> ELSE split(n, ",")
    IN  [i \in 1..Len(parts) |-> trim(parts[i])]
BadToken == \E i \in 1..Len(DirectiveTokens) : DirectiveTokens[i] \notin {<<"e","r","r","o","r","s">>, <<"w","a","r","n","i","n","g","s">>}
\* what the directive alone yields
DirectiveSet ==
    {k \in {"error", "warning"} :
        \E i \in 1..Len(DirectiveTokens) :
            DirectiveTokens[i] = (IF k = "error" THEN <<"e","r","r","o","r","s">> ELSE <<"w","a","r","n","i","n","g","s">>)}

SuppressingFlags ==
    {<<"-","-","v","e","r","i","f","y","t","y","p","e","s">>, <<"-","-","s","t","a","t","s">>, <<"-","-","v","e","r","b","o","s","e">>, <<"-","-","c","r","e","a","t","e","s","t","u","b">>, <<"-","-","d","e","p","e","n","d","e","n","c","i","e","s">>}
Suppressed ==
    IsTrue("no-comments") \/ \E f \in SuppressingFlags : HasArg(f)

AnnotateErrors ==
    {"invalid value in comma-separated annotate", "invalid value for annotate"}

\* the version chosen for the flags is below 1.1.309 in semantic-version
\* precedence: a lower main version, or the same one with a prerelease
BelowPivot ==
    LET v == SemVer(result.pyrightVersion) IN
    \/ v.major < 1
    \/ v.major = 1 /\ v.minor < 1
    \/ v.major = 1 /\ v.minor = 1 /\ v.patch < PatchPivot
    \/ v.major = 1 /\ v.minor = 1 /\ v.patch = PatchPivot /\ v.prerelease # <<>>

\* C1: typeshed-path and venv-path are spelled with a dash exactly when the
\* pyright version is below 1.1.309 in semantic-version precedence; 1.1.309
\* itself gets the spelling without a dash; both options use the same spelling.
C1_FlagSpelling ==
    Returned =>
        /\ getInput("typeshed-path") # <<>> =>
            /\ HasPair(<<"-","-","t","y","p","e","s","h","e","d","-","p","a","t","h">>, getInput("typeshed-path")) <=> BelowPivot
            /\ HasPair(<<"-","-","t","y","p","e","s","h","e","d","p","a","t","h">>, getInput("typeshed-path")) <=> ~BelowPivot
        /\ getInput("venv-path") # <<>> =>
            /\ HasPair(<<"-","-","v","e","n","v","-","p","a","t","h">>, getInput("venv-path")) <=> BelowPivot
            /\ HasPair(<<"-","-","v","e","n","v","p","a","t","h">>, getInput("venv-path")) <=> ~BelowPivot
        /\ ~(HasArg(<<"-","-","t","y","p","e","s","h","e","d","-","p","a","t","h">>) /\ HasArg(<<"-","-","v","e","n","v","p","a","t","h">>))
        /\ ~(HasArg(<<"-","-","t","y","p","e","s","h","e","d","p","a","t","h">>) /\ HasArg(<<"-","-","v","e","n","v","-","p","a","t","h">>))

C1_Witness ==
    /\ Returned
    /\ result.pyrightVersion = <<"1",".","1",".","3","0","9">>
    /\ HasPair(<<"-","-","t","y","p","e","s","h","e","d","p","a","t","h">>, <<"t","s">>)
    /\ HasPair(<<"-","-","v","e","n","v","p","a","t","h">>, <<"v","e","n","v">>)

\* C2: when no-comments is true or the argument vector holds one of
\* --verifytypes, --stats, --verbose, --createstub, --dependencies (from a
\* named option or from extra-args), the annotate set returned is empty.
C2_SuppressedIsEmpty ==
    (Returned /\ Suppressed) => result.annotate = {}

C2_Witness ==
    /\ Returned
    /\ ~IsTrue("no-comments")
    /\ getInput("annotate") = <<"w","a","r","n","i","n","g","s",",","e","r","r","o","r","s">>
    /\ getInput("dependencies") # <<>>
    /\ HasArg(<<"-","-","d","e","p","e","n","d","e","n","c","i","e","s">>)
    /\ result.annotate = {}

\* a run whose only open question is the annotate directive: it got as far as
\* the directive, or returned
AnnotateDecided ==
    \/ Returned
    \/ pc = "failed" /\ result.error \in AnnotateErrors

\* C3 as stated: every case variant of none/false gives the empty set, every
\* case variant of all/true and the empty directive give {error, warning}, and
\* none of them raises an error.
C3_AnyCaseSentinels ==
    LET d == toUpperCase(trim(getInput("annotate"))) IN
    AnnotateDecided =>
        /\ d \in {<<"N","O","N","E">>, <<"F","A","L","S","E">>} =>
            /\ Returned
            /\ ~Suppressed => result.annotate = {}
        /\ d \in {<<"A","L","L">>, <<"T","R","U","E">>, <<>>} =>
            /\ Returned
            /\ ~Suppressed => result.annotate = {"error", "warning"}

\* C3 amended: true and false are matched in any case, none and all only in
\* lower case; NONE, All and the like are rejected as invalid annotate values.
C3_SentinelsAsCoded ==
    LET d == trim(getInput("annotate")) IN
    /\ AnnotateDecided =>
        /\ (d = <<"n","o","n","e">> \/ toUpperCase(d) = <<"F","A","L","S","E">>) =>
            /\ Returned
            /\ ~Suppressed => result.annotate = {}
        /\ (d = <<"a","l","l">> \/ toUpperCase(d) = <<"T","R","U","E">> \/ d = <<>>) =>
            /\ Returned
            /\ ~Suppressed => result.annotate = {"error", "warning"}
    /\ (toUpperCase(d) \in {<<"N","O","N","E">>, <<"A","L","L">>} /\ d \notin {<<"n","o","n","e">>, <<"a","l","l">>}) =>
        /\ ~Returned
        /\ AnnotateDecided => result.error = "invalid value for annotate"

C3_Witness ==
    /\ pc = "failed"
    /\ getInput("annotate") = <<"N","O","N","E">>
    /\ result.error = "invalid value for annotate"

\* C4: the annotate set holds nothing but error and warning; getArgs returns
\* only when every trimmed token of the normalized directive is errors or
\* warnings, and then the set is exactly what those tokens name; any other
\* token ends the run with an invalid-annotate error.
C4_AnnotateTokens ==
    /\ result.annotate \subseteq {"error", "warning"}
    /\ Returned => ~BadToken
    /\ (Returned /\ ~Suppressed) => result.annotate = DirectiveSet
    /\ (pc = "failed" /\ result.error \in AnnotateErrors) => BadToken
    /\ (/\ BadToken
        /\ pc = "failed"
        /\ pyrightPath # <<>>
        /\ result.error \notin {"SemVer(pyrightInfo.version)", "malformed extra-args"})
       => result.error \in AnnotateErrors

C4_Witness ==
    /\ pc = "failed"
    /\ getInput("annotate") = <<"e","r","r","o","r","s",",">>
    /\ result.error = "invalid value for annotate"

\* how often flag f was pushed as a flag of a named option: its occurrences
\* that are neither a word of extra-args nor the value of a valued option
ValuedInputs ==
    {"create-stub", "dependencies", "level", "project", "python-platform",
     "python-path", "python-version", "typeshed-path", "venv-path", "verify-types"}
FlagPushes(f) ==
    Count(result.args, f) - Count(ExtraWords, f)
    - Cardinality({n \in ValuedInputs : getInput(n) = f})
Bit(b) == IF b THEN 1 ELSE 0

\* C5: a boolean option takes effect exactly when its value is TRUE in some
\* case; FALSE, 1, yes and an empty value append no flag.
C5_BooleanInputs ==
    Returned =>
        /\ FlagPushes(<<"-","-","s","k","i","p","u","n","a","n","n","o","t","a","t","e","d">>) = Bit(IsTrue("skip-unannotated"))
        /\ FlagPushes(<<"-","-","s","t","a","t","s">>) = Bit(IsTrue("stats"))
        /\ FlagPushes(<<"-","-","w","a","r","n","i","n","g","s">>) = Bit(IsTrue("warnings"))
        /\ FlagPushes(<<"-","-","l","i","b">>) = Bit(IsTrue("verbose")) + Bit(IsTrue("lib"))
        /\ IsTrue("no-comments") => result.annotate = {}
        /\ (~IsTrue("no-comments") /\ ~\E f \in SuppressingFlags : HasArg(f))
            => result.annotate = DirectiveSet

C5_Witness ==
    /\ Returned
    /\ getInput("warnings") = <<"t","R","u","E">>
    /\ HasArg(<<"-","-","w","a","r","n","i","n","g","s">>)

\* C6: a present version input is returned in normalized form (or rejected)
\* with no manifest fetch, no log line and no read of pylance-version; the
\* manifest is fetched and the one line logged only when version is absent and
\* pylance-version present; with both absent the version is "latest".
C6_VersionPrecedence ==
    LET v == getInput("version")
        p == getInput("pylance-version")
    IN  /\ Len(log) <= 1
        /\ Count(trace, "GET pylance-release") <= 1
        /\ v # <<>> =>
            /\ ~InTrace("GET pylance-release")
            /\ ~InTrace("getInput pylance-version")
            /\ log = <<>>
            /\ pc # "getPyrightVersion" =>
                IF SemVer(v).valid
                THEN /\ SemVer(version) = [SemVer(v) EXCEPT !.build = <<>>]
                     /\ version[1] \in Chars(DigitChars)
                     /\ IndexOf("+", version) = 0
                ELSE /\ pc = "failed"
                     /\ result.error = "SemVer(version)"
                     /\ version = <<>>
                     /\ ~InTrace("GET registry")
        /\ (v = <<>> /\ p # <<>>) =>
            /\ log # <<>> =>
                /\ InTrace("GET pylance-release")
                /\ log[1] = <<"P","y","l","a","n","c","e"," ">> \o p \o <<" ","u","s","e","s"," ","p","y","r","i","g","h","t"," ">> \o manifest.body.version
                /\ version = manifest.body.version
            /\ version # <<>> => Len(log) = 1
            /\ InTrace("GET registry") => InTrace("GET pylance-release")
        /\ (v = <<>> /\ p = <<>>) =>
            /\ ~InTrace("GET pylance-release")
            /\ log = <<>>
            /\ pc # "getPyrightVersion" => version = <<"l","a","t","e","s","t">>

C6_Witness ==
    /\ Returned
    /\ getInput("version") = <<"v","1",".","1",".","3","0","8">>
    /\ getInput("pylance-version") = <<"l","a","t","e","s","t","-","r","e","l","e","a","s","e">>
    /\ version = <<"1",".","1",".","3","0","8">>
    /\ log = <<>>

\* the flags of the named options, in the order of the code
OptionTable ==
    <<[name |-> "create-stub", flag |-> <<"-","-","c","r","e","a","t","e","s","t","u","b">>, kind |-> "valued"],
      [name |-> "dependencies", flag |-> <<"-","-","d","e","p","e","n","d","e","n","c","i","e","s">>, kind |-> "valued"],
      [name |-> "ignore-external", flag |-> <<"-","-","i","g","n","o","r","e","e","x","t","e","r","n","a","l">>, kind |-> "present"],
      [name |-> "level", flag |-> <<"-","-","l","e","v","e","l">>, kind |-> "valued"],
      [name |-> "project", flag |-> <<"-","-","p","r","o","j","e","c","t">>, kind |-> "valued"],
      [name |-> "python-platform", flag |-> <<"-","-","p","y","t","h","o","n","p","l","a","t","f","o","r","m">>, kind |-> "valued"],
      [name |-> "python-path", flag |-> <<"-","-","p","y","t","h","o","n","p","a","t","h">>, kind |-> "valued"],
      [name |-> "python-version", flag |-> <<"-","-","p","y","t","h","o","n","v","e","r","s","i","o","n">>, kind |-> "valued"],
      [name |-> "skip-unannotated", flag |-> <<"-","-","s","k","i","p","u","n","a","n","n","o","t","a","t","e","d">>, kind |-> "boolean"],
      [name |-> "stats", flag |-> <<"-","-","s","t","a","t","s">>, kind |-> "boolean"],
      [name |-> "typeshed-path",
       flag |-> IF BelowPivot THEN <<"-","-","t","y","p","e","s","h","e","d","-","p","a","t","h">> ELSE <<"-","-","t","y","p","e","s","h","e","d","p","a","t","h">>,
       kind |-> "valued"],
      [name |-> "venv-path",
       flag |-> IF BelowPivot THEN <<"-","-","v","e","n","v","-","p","a","t","h">> ELSE <<"-","-","v","e","n","v","p","a","t","h">>,
       kind |-> "valued"],
      [name |-> "verbose", flag |-> <<"-","-","l","i","b">>, kind |-> "boolean"],
      [name |-> "verify-types", flag |-> <<"-","-","v","e","r","i","f","y","t","y","p","e","s">>, kind |-> "valued"],
      [name |-> "warnings", flag |-> <<"-","-","w","a","r","n","i","n","g","s">>, kind |-> "boolean"],
      [name |-> "lib", flag |-> <<"-","-","l","i","b">>, kind |-> "boolean"]>>

Contribution(o) ==
    IF o.kind = "valued"
    THEN IF getInput(o.name) # <<>> THEN <<o.flag, getInput(o.name)>> ELSE <<>>
    ELSE IF o.kind = "present"
    THEN IF getInput(o.name) # <<>> THEN <<o.flag>> ELSE <<>>
    ELSE IF IsTrue(o.name) THEN <<o.flag>> ELSE <<>>

RECURSIVE Contributions(_)
Contributions(i) ==
    IF i > Len(OptionTable) THEN <<>>
    ELSE Contribution(OptionTable[i]) \o Contributions(i + 1)

\* C7: the vector is the entry point, then the contributions of the set
\* options in the fixed order, then the words of extra-args in their order;
\* it is a function of the configuration, the version and the artifact path.
C7_VectorOrder ==
    Returned =>
        result.args
            = <<pyrightPath \o <<"/","p","a","c","k","a","g","e","/","i","n","d","e","x",".","j","s">>>> \o Contributions(1) \o ExtraWords

C7_Witness ==
    /\ Returned
    /\ \A n \in ValuedInputs \cup {"ignore-external", "extra-args"} : getInput(n) # <<>>
    /\ \A n \in BooleanInputs \ {"no-comments"} : IsTrue(n)
    /\ Len(result.args) = 29
    /\ result.args[28] = <<"x">>
    /\ result.args[29] = <<"y"," ","z">>

\* the command-echo text: the message, then " (rule)" when a rule is present
EchoText ==
    diag.message
    \o (IF diag.rule # <<>> /\ diag.rule[1] # <<>>
        THEN <<" ","(">> \o diag.rule[1] \o <<")">> ELSE <<>>)

\* "line:col -" with both numbers one more than the 0-based ones, for a range
\* whose start differs from its end
PositionText ==
    IF diag.range # <<>> /\ diag.range[1].start # diag.range[1].end
    THEN <<DigitChars[diag.range[1].start.line + 2]>> \o <<":">>
         \o <<DigitChars[diag.range[1].start.character + 2]>> \o <<" ","-">>
    ELSE <<>>

EndsWith(s, suffix) ==
    /\ Len(suffix) <= Len(s)
    /\ SubSeq(s, Len(s) - Len(suffix) + 1, Len(s)) = suffix

\* C8: in command-echo mode the result is the message and the rule suffix
\* only; in human-log mode it is "file:" when a file is present, the 1-based
\* "line:col -" when the range is present and not empty, " severity: ", and
\* the same message and rule suffix, so it ends with the command-echo text.
C8_DiagnosticText ==
    message # <<>> =>
        /\ forCommand => message[1] = EchoText
        /\ ~forCommand =>
            /\ message[1]
                = (IF diag.file # <<>> /\ diag.file[1] # <<>>
                   THEN diag.file[1] \o <<":">> ELSE <<>>)
                  \o PositionText \o <<" ">> \o diag.severity \o <<":"," ">> \o EchoText
            /\ EndsWith(message[1], EchoText)

C8_Witness ==
    /\ message = <<<<"a",".","p","y",":","2",":","1"," ","-"," ","e","r","r","o","r",":"," ","b","a","d"," ","(","r","e","p","o","r","t","X",")">>>>
    /\ ~forCommand
    /\ diag.range[1].start = [line |-> 1, character |-> 0]
    /\ diag.range[1].end = [line |-> 1, character |-> 1]

\* the host calls in the order of the pipeline
CallOrder ==
    <<"getInput version", "getInput pylance-version", "GET pylance-release",
      "GET registry", "tc.find", "tc.downloadTool", "tc.extractTar", "tc.cacheDir">>

Sequential ==
    \A i \in 1..Len(trace) : \A j \in (i + 1)..Len(trace) :
        IndexOf(trace[i], CallOrder) < IndexOf(trace[j], CallOrder)

InvalidPylanceVersion ==
    /\ getInput("version") = <<>>
    /\ getInput("pylance-version") \notin {<<>>, <<"l","a","t","e","s","t","-","r","e","l","e","a","s","e">>, <<"l","a","t","e","s","t","-","p","r","e","r","e","l","e","a","s","e">>}
    /\ ~SemVer(getInput("pylance-version")).valid

ArtifactCalled ==
    InTrace("tc.find") \/ InTrace("tc.downloadTool") \/ InTrace("tc.extractTar")
    \/ InTrace("tc.cacheDir")

\* C9: the run is sequential and a failure ends it with no Args value: an
\* invalid pylance-version fails before the manifest fetch, a bad manifest
\* before the registry lookup, a non-success registry status before any cache
\* lookup or download, and a malformed extra-args entry or invalid annotate
\* token after the artifact was obtained, with no vector and no set returned.
C9_FailureAborts ==
    /\ Sequential
    /\ Returned <=> pc = "done"
    /\ result.kind = "error" <=> pc = "failed"
    /\ ~Returned =>
        /\ result.args = <<>>
        /\ result.annotate = {}
        /\ result.pyrightVersion = <<>>
    /\ InvalidPylanceVersion =>
        /\ pc \in {"getPyrightVersion", "failed"}
        /\ ~InTrace("GET pylance-release")
        /\ ~InTrace("GET registry")
        /\ ~ArtifactCalled
    /\ (/\ InTrace("GET pylance-release")
        /\ manifest.status # HttpCodesOK \/ manifest.body.shape # "ok") =>
        /\ pc = "failed"
        /\ ~InTrace("GET registry")
        /\ ~ArtifactCalled
    /\ (InTrace("GET registry") /\ registry.status # HttpCodesOK) =>
        /\ pc = "failed"
        /\ ~ArtifactCalled
    /\ (MalformedExtraArgs \/ BadToken) => ~Returned
    /\ (pc = "failed" /\ result.error \in AnnotateErrors \cup {"malformed extra-args"}) =>
        /\ InTrace("tc.find")
        /\ pyrightPath # <<>>
        /\ MalformedExtraArgs \/ BadToken

C9_Witness ==
    /\ pc = "failed"
    /\ InTrace("GET registry")
    /\ registry.status # HttpCodesOK
    /\ registry.body.shape = "ok"
    /\ result = Rejected("Failed to download metadata for pyright")

\* C10: verbose appends --lib and never --verbose, so verbose alone leaves the
\* annotate set as the directive gives it; verbose and lib together give
\* --lib twice.
C10_VerboseIsLib ==
    (Returned /\ IsTrue("verbose")) =>
        /\ FlagPushes(<<"-","-","v","e","r","b","o","s","e">>) = 0
        /\ FlagPushes(<<"-","-","l","i","b">>) = 1 + Bit(IsTrue("lib"))
        /\ IsTrue("lib") => Count(result.args, <<"-","-","l","i","b">>) >= 2
        /\ (/\ ~IsTrue("no-comments")
            /\ ~IsTrue("stats")
            /\ \A n \in {"create-stub", "dependencies", "verify-types"} : getInput(n) = <<>>
            /\ \A f \in SuppressingFlags :
                /\ Count(ExtraWords, f) = 0
                /\ \A n \in ValuedInputs : getInput(n) # f)
           => result.annotate = DirectiveSet

C10_Witness ==
    /\ Returned
    /\ IsTrue("verbose")
    /\ IsTrue("lib")
    /\ ~IsTrue("no-comments")
    /\ ~IsTrue("stats")
    /\ Count(result.args, <<"-","-","l","i","b">>) = 2
    /\ result.annotate = {"error"}

====
